---- MODULE Spec2Model ----
(***************************************************************************)
(* Model of analyzer.py: the depth-bounded directory walker                *)
(* (scan_directory), the size estimator (get_size_with_du), the manual     *)
(* walk (get_folder_size_walk), flatten_tree / generate_shortcuts and the  *)
(* control flow of main.                                                   *)
(*                                                                         *)
(* The filesystem, the faults of its system calls and the behaviour of the *)
(* external du tool are the environment.  The filesystem is built by the   *)
(* environment actions before the process starts; the process then runs    *)
(* main step by step.                                                      *)
(***************************************************************************)
EXTENDS Integers, Sequences, FiniteSets, TLC

\* ---------------------------------------------------------------- bounds
MaxFsDepth == 2      \* deepest entry below the scan root
MaxEntries == 2      \* entries below the scan root
MaxFaults == 1       \* entries whose listing or stat fails
MaxDepthArg == 2     \* --depth ranges over 0..MaxDepthArg
MaxTopN == 1         \* --shortcuts is 0 (disabled) or MaxTopN

\* ---------------------------------------------------------------- universe
Names == {"a", "b", ".h"}
\* str.startswith('.') of line 136, on the names of the universe
DotNames == {".h"}
FileSizes == {1024, 1500}
KB == 1024
DuOutcomes == {"ok", "nonzero", "timeout", "unparseable", "missing"}

Paths == UNION {[1..n -> Names] : n \in 0..MaxFsDepth}
Root == << >>

Parent(p) == SubSeq(p, 1, Len(p) - 1)
Last(p) == p[Len(p)]
IsUnder(q, p) == Len(q) >= Len(p) /\ SubSeq(q, 1, Len(p)) = p

NoEntry == [kind |-> "none", size |-> 0]
DirEntry == [kind |-> "dir", size |-> 0]
LinkEntry == [kind |-> "link", size |-> 0]
FileEntry(s) == [kind |-> "file", size |-> s]

VARIABLES
    fs,          \* the filesystem: Paths -> entry
    perm,        \* directories whose os.listdir raises PermissionError
    ioerr,       \* directories whose os.listdir raises another OSError
    unstat,      \* files whose os.path.getsize raises OSError
    duTool,      \* how the external du behaves for this run
    inodeKB,     \* KB du accounts to a directory or symlink inode
    pc,          \* position of the process in main
    args_depth,   \* args.depth
    shortcuts,   \* args.shortcuts
    tree,        \* the value of scan_directory(target_path, args.depth)
    report,      \* what json.dump wrote to the output file
    flattened,   \* generate_shortcuts: what flatten_tree(tree) returned
    all_items,   \* generate_shortcuts: all_items, once sorted
    top_items,   \* generate_shortcuts: top_items
    exit_code    \* the status the process ended with, -1 while it runs

vars == <<fs, perm, ioerr, unstat, duTool, inodeKB, pc, args_depth, shortcuts,
          tree, report, flattened, all_items, top_items, exit_code>>

\* the items argument of flatten_tree: None, or a list
None == [is_none |-> TRUE, list |-> << >>]
List(l) == [is_none |-> FALSE, list |-> l]

\* ---------------------------------------------------------------- os
Entries(f) == {p \in Paths : p # Root /\ f[p].kind # "none"}
ChildPaths(f, p) == {q \in Paths : Len(q) = Len(p) + 1 /\ Parent(q) = p /\ f[q].kind # "none"}

\* os.path.basename(path) or path
basename(p) == IF p = Root THEN "/" ELSE Last(p)

\* A sequence holding the elements of the set S, in the order of the ranking.
RECURSIVE SeqBy(_, _)
SeqBy(S, rank) ==
    IF S = {} THEN << >>
    ELSE LET x == CHOOSE x \in S : \A y \in S : rank[x] <= rank[y]
         IN <<x>> \o SeqBy(S \ {x}, rank)

\* The orders os.listdir may return names in, as rankings of Names.  Line 136
\* drops the dot names before the order of a listing is used, so the
\* rankings that put them last stand for all.
Orders == {r \in [Names -> 1..Cardinality(Names)] :
              /\ \A x, y \in Names : x # y => r[x] # r[y]
              /\ \A x \in DotNames, y \in Names \ DotNames : r[x] > r[y]}

\* os.listdir(path): the exception it raises ("" for none) and the names, in
\* the order the OS gives them.
listdir(e, p) ==
    IF p \in e.perm THEN [exc |-> "PermissionError", names |-> << >>]
    ELSE IF p \in e.ioerr \/ e.fs[p].kind # "dir" THEN [exc |-> "OSError", names |-> << >>]
    ELSE [exc |-> "", names |-> SeqBy({Last(q) : q \in ChildPaths(e.fs, p)}, e.order)]

\* os.path.isfile / isdir / islink; none of them raises
isfile(e, p) == e.fs[p].kind = "file"
isdir(e, p) == e.fs[p].kind = "dir"
islink(e, p) == e.fs[p].kind = "link"

\* ---------------------------------------------------------------- du -sk
\* What `du -sk path` adds up: the blocks of every entry at or below path,
\* hidden ones included, symlinks not followed but counted with their own
\* inode, each file rounded up to whole KB.
RECURSIVE du_kb(_, _)
RECURSIVE du_kb_all(_, _)
du_kb_all(e, S) ==
    IF S = {} THEN 0
    ELSE LET q == CHOOSE q \in S : TRUE
         IN du_kb(e, q) + du_kb_all(e, S \ {q})
du_kb(e, p) ==
    CASE e.fs[p].kind = "file" -> (e.fs[p].size + KB - 1) \div KB
      [] e.fs[p].kind = "link" -> e.inodeKB
      [] e.fs[p].kind = "dir"  -> e.inodeKB + du_kb_all(e, ChildPaths(e.fs, p))
      [] OTHER -> 0

\* du exits non-zero when it cannot read the path or a directory below it.
du_cannot_read(e, p) ==
    \/ e.fs[p].kind = "none"
    \/ \E q \in Paths : IsUnder(q, p) /\ e.fs[q].kind = "dir" /\ q \in e.perm \cup e.ioerr

\* subprocess.run(["du", "-sk", path], ..., timeout=30)
du_run(e, p) ==
    IF e.duTool = "ok" /\ du_cannot_read(e, p) THEN "nonzero" ELSE e.duTool

\* get_size_with_du: [raised, size].  A missing tool makes subprocess.run
\* raise FileNotFoundError, which the except clause does not name.
get_size_with_du(e, p) ==
    LET run == du_run(e, p)
    IN CASE run = "missing"  -> [raised |-> TRUE, size |-> 0]
         [] run = "ok"       -> [raised |-> FALSE, size |-> du_kb(e, p) * KB]
         [] run = "nonzero"  -> [raised |-> FALSE, size |-> 0]
         [] OTHER            -> [raised |-> FALSE, size |-> 0]

\* get_file_size
get_file_size(e, p) ==
    IF p \in e.unstat \/ e.fs[p].kind = "none" THEN 0 ELSE e.fs[p].size

\* get_folder_size_walk (never called by the program)
RECURSIVE get_folder_size_walk(_, _)
RECURSIVE walk_entries(_, _)
\* one entry of os.walk: a file that is no symlink adds its size, a
\* directory that is no symlink is walked, everything else adds nothing
walk_entry(e, q) ==
    CASE e.fs[q].kind = "file" -> (IF q \in e.unstat THEN 0 ELSE e.fs[q].size)
      [] e.fs[q].kind = "dir"  -> get_folder_size_walk(e, q)
      [] OTHER -> 0
walk_entries(e, S) ==
    IF S = {} THEN 0
    ELSE LET q == CHOOSE q \in S : TRUE
         IN walk_entry(e, q) + walk_entries(e, S \ {q})
get_folder_size_walk(e, p) ==
    IF listdir(e, p).exc # "" THEN 0
    ELSE walk_entries(e, ChildPaths(e.fs, p))

\* ---------------------------------------------------------------- walker
file_node(e, name, p) ==
    [name |-> name, path |-> p, size |-> get_file_size(e, p), type |-> "file"]

dir_node(name, p, size, children) ==
    [name |-> name, path |-> p, size |-> size, type |-> "dir", children |-> children]

\* add_child with `total_size = child["size"]` in place of `+=`
add_child_assign(acc, child) ==
    [children |-> Append(acc.children, child), total_size |-> child.size]

\* lines 163-164: children.append(child); total_size += child["size"]
add_child(acc, child) ==
    [children |-> Append(acc.children, child), total_size |-> acc.total_size + child.size]

\* line 169: children.sort(key=size, reverse=True); the sort is stable
RECURSIVE insert_desc(_, _)
insert_desc(x, s) ==
    IF s = << >> THEN <<x>>
    ELSE IF Head(s).size > x.size THEN <<Head(s)>> \o insert_desc(x, Tail(s))
    ELSE <<x>> \o s
\* sort_children without reverse=True: ascending
RECURSIVE insert_asc(_, _)
insert_asc(x, s) ==
    IF s = << >> THEN <<x>>
    ELSE IF Head(s).size < x.size THEN <<Head(s)>> \o insert_asc(x, Tail(s))
    ELSE <<x>> \o s
RECURSIVE sort_children_asc(_)
sort_children_asc(children) ==
    IF children = << >> THEN << >>
    ELSE insert_asc(Head(children), sort_children_asc(Tail(children)))

RECURSIVE sort_children(_)
sort_children(children) ==
    IF children = << >> THEN << >>
    ELSE insert_desc(Head(children), sort_children(Tail(children)))

\* line 136: valid_entries
RECURSIVE valid_entries(_)
valid_entries(entries) ==
    IF entries = << >> THEN << >>
    ELSE IF Head(entries) \in DotNames THEN valid_entries(Tail(entries))
    ELSE <<Head(entries)>> \o valid_entries(Tail(entries))

Raised == [raised |-> TRUE]
Returned(node) == [raised |-> FALSE, node |-> node]

\* lines 116-121 and 126-130: the node sized by get_size_with_du
estimated_node(e, name, p) ==
    LET du == get_size_with_du(e, p)
    IN IF du.raised THEN Raised ELSE Returned(dir_node(name, p, du.size, << >>))

RECURSIVE scan_directory(_, _, _, _)
RECURSIVE scan_entries(_, _, _, _, _, _, _)
\* the loop of lines 144-166 from entry i on
scan_entries(e, p, valid, i, max_depth, current_depth, acc) ==
    IF i > Len(valid) THEN acc
    ELSE LET full_path == Append(p, valid[i])
         IN IF islink(e, full_path)
            THEN scan_entries(e, p, valid, i + 1, max_depth, current_depth, acc)
            ELSE IF isdir(e, full_path)
            THEN LET r == scan_directory(e, full_path, max_depth, current_depth + 1)
                 IN IF r.raised
                    THEN scan_entries(e, p, valid, i + 1, max_depth, current_depth, acc)
                    ELSE scan_entries(e, p, valid, i + 1, max_depth, current_depth,
                                      add_child(acc, r.node))
            ELSE scan_entries(e, p, valid, i + 1, max_depth, current_depth,
                              add_child(acc, file_node(e, valid[i], full_path)))

scan_directory(e, p, max_depth, current_depth) ==
    LET name == basename(p)
    IN IF isfile(e, p) THEN Returned(file_node(e, name, p))
       ELSE IF current_depth >= max_depth THEN estimated_node(e, name, p)
       ELSE LET entries == listdir(e, p)
            IN CASE entries.exc = "PermissionError" -> estimated_node(e, name, p)
                 [] entries.exc = "OSError" -> Returned(dir_node(name, p, 0, << >>))
                 [] OTHER ->
                      LET acc == scan_entries(e, p, valid_entries(entries.names), 1,
                                              max_depth, current_depth,
                                              [children |-> << >>, total_size |-> 0])
                      IN Returned(dir_node(name, p, acc.total_size,
                                           sort_children(acc.children)))

\* ---------------------------------------------------------------- flatten
\* lines 185-190
item_of(node) ==
    [name |-> node.name, path |-> node.path, size |-> node.size, type |-> node.type]

RECURSIVE flatten_tree(_, _)
RECURSIVE flatten_children(_, _, _)
\* flatten_children with `flatten_tree(child)` in place of
\* `flatten_tree(child, items)`: what the children add is lost
flatten_children_lost(children, i, items) == items

flatten_children(children, i, items) ==
    IF i > Len(children) THEN items
    ELSE flatten_children(children, i + 1, flatten_tree(children[i], List(items)))
\* flatten_tree(node, items): the list after the call; items = None makes a new list
flatten_tree(node, items) ==
    LET items0 == IF items.is_none THEN << >> ELSE items.list
        items1 == Append(items0, item_of(node))
    IN IF "children" \in DOMAIN node
       THEN flatten_children(node.children, 1, items1)
       ELSE items1

\* line 250: all_items.sort(key=size, reverse=True)
sort_items(items) == sort_children(items)
\* line 251: all_items[:top_n]
take(items, n) == SubSeq(items, 1, IF n < Len(items) THEN n ELSE Len(items))

\* ---------------------------------------------------------------- state machine
NoTree == [name |-> "", path |-> Root, size |-> 0, type |-> "none"]

Init ==
    /\ \E k \in {NoEntry, DirEntry} \cup {FileEntry(s) : s \in FileSizes} :
          fs = [p \in Paths |-> IF p = Root THEN k ELSE NoEntry]
    /\ perm = {} /\ ioerr = {} /\ unstat = {}
    /\ duTool = "ok" /\ inodeKB = 0
    /\ pc = "setup"
    /\ args_depth = 0 /\ shortcuts = 0
    /\ tree = NoTree /\ report = NoTree
    /\ flattened = << >> /\ all_items = << >> /\ top_items = << >>
    /\ exit_code = -1

process == <<pc, args_depth, shortcuts, tree, report, flattened, all_items, top_items, exit_code>>
faults == <<perm, ioerr, unstat>>
tool == <<duTool, inodeKB>>

Faulty == perm \cup ioerr \cup unstat

\* the environment puts an entry into a directory of the tree
Create(p, entry) ==
    /\ pc = "setup"
    /\ p # Root /\ fs[p].kind = "none" /\ fs[Parent(p)].kind = "dir"
    /\ Cardinality(Entries(fs)) < MaxEntries
    /\ fs' = [fs EXCEPT ![p] = entry]
    /\ UNCHANGED <<faults, tool, process>>

CreateFile == \E p \in Paths, s \in FileSizes : Create(p, FileEntry(s))
Mkdir == \E p \in Paths : Create(p, DirEntry)
Symlink == \E p \in Paths : Create(p, LinkEntry)

\* the environment makes a directory unlistable (PermissionError)
DenyListing ==
    \E p \in Paths :
        /\ pc = "setup" /\ fs[p].kind = "dir" /\ p \notin Faulty
        /\ Cardinality(Faulty) < MaxFaults
        /\ perm' = perm \cup {p}
        /\ UNCHANGED <<fs, ioerr, unstat, tool, process>>

\* the environment makes listing a directory fail with another OSError
BreakListing ==
    \E p \in Paths :
        /\ pc = "setup" /\ fs[p].kind = "dir" /\ p \notin Faulty
        /\ Cardinality(Faulty) < MaxFaults
        /\ ioerr' = ioerr \cup {p}
        /\ UNCHANGED <<fs, perm, unstat, tool, process>>

\* the environment makes the stat of a file fail (it vanishes after the listing)
BreakStat ==
    \E p \in Paths :
        /\ pc = "setup" /\ fs[p].kind = "file" /\ p \notin Faulty
        /\ Cardinality(Faulty) < MaxFaults
        /\ unstat' = unstat \cup {p}
        /\ UNCHANGED <<fs, perm, ioerr, tool, process>>

\* main, lines 331-333
main_check ==
    /\ pc = "setup"
    /\ IF fs[Root].kind = "none"
       THEN pc' = "exited" /\ exit_code' = 1
       ELSE pc' = "scan" /\ UNCHANGED exit_code
    /\ UNCHANGED <<fs, faults, tool, args_depth, shortcuts, tree, report, flattened, all_items, top_items>>

\* main, line 340: tree = scan_directory(target_path, args.depth); an
\* exception that leaves scan_directory ends the process with a traceback.
\* args.depth, the du the process finds and the block accounting du reports
\* (it shows only in what a working du prints) are read here for the first time.
main_scan ==
    /\ pc = "scan"
    /\ \E d \in 0..MaxDepthArg, t \in DuOutcomes, order \in Orders :
       \E k \in IF t = "ok" THEN {0, 4} ELSE {0} :
          /\ args_depth' = d /\ duTool' = t /\ inodeKB' = k
          /\ LET e == [fs |-> fs, perm |-> perm, ioerr |-> ioerr, unstat |-> unstat,
                       duTool |-> t, inodeKB |-> k, order |-> order]
                 r == scan_directory(e, Root, d, 0)
             IN IF r.raised
                THEN pc' = "crashed" /\ exit_code' = 1 /\ UNCHANGED tree
                ELSE pc' = "write" /\ tree' = r.node /\ UNCHANGED exit_code
    /\ UNCHANGED <<fs, faults, shortcuts, report, flattened, all_items, top_items>>

\* main, lines 343-355 with args.shortcuts = 0
main_write ==
    /\ pc = "write"
    /\ report' = tree
    /\ shortcuts' = 0
    /\ pc' = "exited" /\ exit_code' = 0
    /\ UNCHANGED <<fs, faults, tool, args_depth, tree, flattened, all_items, top_items>>

\* generate_shortcuts, lines 247-251: all_items and top_items
generate_shortcuts(t, top_n) ==
    LET items == flatten_tree(t, None)
    IN [flattened |-> items,
        all_items |-> sort_items(items),
        top_items |-> take(sort_items(items), top_n)]

\* main, lines 343-355 with args.shortcuts > 0: the report is written and
\* generate_shortcuts runs on the tree
main_write_shortcuts ==
    /\ pc = "write"
    /\ report' = tree
    /\ MaxTopN > 0
    /\ LET g == generate_shortcuts(tree, MaxTopN)
       IN /\ shortcuts' = MaxTopN
          /\ flattened' = g.flattened
          /\ all_items' = g.all_items
          /\ top_items' = g.top_items
    /\ pc' = "exited" /\ exit_code' = 0
    /\ UNCHANGED <<fs, faults, tool, args_depth, tree>>

Next ==
    \/ CreateFile \/ Mkdir \/ Symlink
    \/ DenyListing \/ BreakListing \/ BreakStat
    \/ main_check \/ main_scan
    \/ main_write \/ main_write_shortcuts

Spec == Init /\ [][Next]_vars

\* ---------------------------------------------------------------- properties
\* the tree holds a value of scan_directory
Scanned == tree.type # "none"
Ended == pc \in {"exited", "crashed"}

HasChildren(n) == "children" \in DOMAIN n /\ n.children # << >>

RECURSIVE Nodes(_)
\* every node of the tree n
Nodes(n) ==
    {n} \cup (IF "children" \in DOMAIN n
              THEN UNION {Nodes(n.children[i]) : i \in 1..Len(n.children)}
              ELSE {})

RECURSIVE SumSizes(_)
SumSizes(nodes) == IF nodes = << >> THEN 0 ELSE Head(nodes).size + SumSizes(Tail(nodes))

\* the environment the scan of this run saw (the order of the listings is
\* not kept; one listing order stands in where sizes alone are compared)
AnOrder == CHOOSE r \in Orders : TRUE
SeenEnv(f) ==
    [fs |-> f, perm |-> perm, ioerr |-> ioerr, unstat |-> unstat,
     duTool |-> duTool, inodeKB |-> inodeKB, order |-> AnOrder]

\* the node was sized by get_size_with_du: at the depth cutoff, or unlistable
Estimated(n) ==
    n.type = "dir" /\ (Len(n.path) >= args_depth \/ n.path \in perm)

\* C1: in the scanned tree every directory node with at least one child has
\* size equal to the sum of the sizes of its children.
C1_SizeIsSumOfChildren ==
    Scanned => \A n \in Nodes(tree) : HasChildren(n) => n.size = SumSizes(n.children)

\* C1 witness: a parent with a non-zero size whose retained child was sized
\* by the estimator and from which a symlink entry was skipped.
C1_Witness ==
    /\ Scanned
    /\ \E n \in Nodes(tree) :
          /\ HasChildren(n) /\ n.size > 0
          /\ \E i \in 1..Len(n.children) :
                Estimated(n.children[i]) /\ n.children[i].size > 0
          /\ \E q \in ChildPaths(fs, n.path) : fs[q].kind = "link"

\* C2: scan_directory never raises, so the run never ends by an exception
\* leaving the scan.
C2_ScanNeverRaises == pc # "crashed"

\* C3: when du fails without raising, the size of a node sized by the
\* estimator is the result of the manual walk of its path.
C3_FallsBackToWalk ==
    Scanned =>
        \A n \in Nodes(tree) :
            (Estimated(n) /\ du_run(SeenEnv(fs), n.path) \in {"nonzero", "timeout", "unparseable"})
                => n.size = get_folder_size_walk(SeenEnv(fs), n.path)

\* the filesystem f without the entries at or below a path of S
Without(f, S) ==
    [p \in Paths |-> IF \E q \in S : IsUnder(p, q) THEN NoEntry ELSE f[p]]

IsHidden(p) == p # Root /\ Last(p) \in DotNames
IsLink(p) == fs[p].kind = "link"
HiddenPaths == {p \in Paths : IsHidden(p)}
LinkPaths == {p \in Paths : p # Root /\ IsLink(p)}

SizesOf(n) == {<<m.path, m.type, m.size>> : m \in Nodes(n)}

\* the sizes the same scan reports on the filesystem f
SizesOn(f) ==
    LET r == scan_directory(SeenEnv(f), Root, args_depth, 0)
    IN IF r.raised THEN {} ELSE SizesOf(r.node)

\* C4: no node but the root has a dot name, and the sizes of the nodes are
\* what they are without the hidden entries: hidden bytes are counted nowhere.
C4_HiddenExcluded ==
    Scanned =>
        /\ \A n \in Nodes(tree) : n.path # Root => n.name \notin DotNames
        /\ SizesOf(tree) = SizesOn(Without(fs, HiddenPaths))

\* what the Size Estimator of the specification returns: du's figure when
\* du succeeds, the manual walk otherwise
Accurate(p) ==
    IF du_run(SeenEnv(fs), p) = "ok"
    THEN du_kb(SeenEnv(fs), p) * KB
    ELSE get_folder_size_walk(SeenEnv(fs), p)

\* C5: with max_depth = k below the depth of the tree, a directory node at
\* depth k has no children and the accurate size of its subtree, and a
\* listed directory at depth < k has every non-hidden non-symlink entry as
\* a child.
C5_DepthCutoff ==
    (Scanned /\ \E q \in Entries(fs) : Len(q) > args_depth) =>
        \A n \in Nodes(tree) :
            /\ (n.type = "dir" /\ Len(n.path) = args_depth)
                  => n.children = << >> /\ n.size = Accurate(n.path)
            /\ (n.type = "dir" /\ Len(n.path) < args_depth /\ n.path \notin perm \cup ioerr)
                  => \A q \in ChildPaths(fs, n.path) :
                        (~IsHidden(q) /\ ~IsLink(q))
                           => \E i \in 1..Len(n.children) : n.children[i].path = q

\* C6: the children of every directory node are in non-increasing order of size.
C6_ChildrenSortedDesc ==
    Scanned =>
        \A n \in Nodes(tree) :
            HasChildren(n) =>
                \A i \in 1..(Len(n.children) - 1) : n.children[i].size >= n.children[i + 1].size

\* C6 witness: a directory listed with two children of different sizes.
C6_Witness ==
    /\ Scanned
    /\ \E n \in Nodes(tree) :
          /\ HasChildren(n) /\ Len(n.children) >= 2
          /\ n.children[1].size > n.children[2].size

\* C7: no symlink is a node, and the sizes of the nodes are what they are
\* without the symlinks: a symlink adds nothing to any node.
C7_SymlinkAbsent ==
    Scanned =>
        /\ \A n \in Nodes(tree) : n.path # Root => ~IsLink(n.path)
        /\ SizesOf(tree) = SizesOn(Without(fs, LinkPaths))

\* the node of the tree for the path p, in a set (empty when there is none)
NodeAt(p) == {n \in Nodes(tree) : n.path = p}

\* C8: a directory below the cutoff whose listing fails is returned, and
\* kept by its parent, as a dir node without children, with the
\* estimator's size after a permission error and size 0 after another error.
C8_ListingErrorPolicy ==
    /\ (pc # "setup" /\ pc # "scan" /\ Root \in perm \cup ioerr
           /\ fs[Root].kind = "dir" /\ args_depth > 0) => Scanned
    /\ Scanned =>
        \A p \in perm \cup ioerr :
            (/\ Len(p) < args_depth
             /\ (p = Root \/ \E m \in NodeAt(Parent(p)) :
                               ~Estimated(m) /\ ~IsHidden(p) /\ Parent(p) \notin ioerr))
            => \E n \in NodeAt(p) :
                  /\ n.type = "dir" /\ n.children = << >>
                  /\ p \in perm => n.size = get_size_with_du(SeenEnv(fs), p).size
                  /\ p \in ioerr => n.size = 0

\* C9: a run that ends without a report is a run whose root does not exist:
\* it ends with a non-zero status before any scan; when the root exists the
\* run writes the report, and writes the scanned tree.
C9_OnlyMissingRootIsFatal ==
    Ended =>
        /\ fs[Root].kind = "none" => (exit_code # 0 /\ ~Scanned /\ report.type = "none")
        /\ fs[Root].kind # "none" => (Scanned /\ report = tree)

RECURSIVE PreOrder(_)
RECURSIVE PreOrderAll(_)
\* the pre-order listing: the node, then the listings of its children in order
PreOrderAll(nodes) ==
    IF nodes = << >> THEN << >> ELSE PreOrder(Head(nodes)) \o PreOrderAll(Tail(nodes))
PreOrder(n) ==
    <<[name |-> n.name, path |-> n.path, size |-> n.size, type |-> n.type]>>
        \o (IF "children" \in DOMAIN n THEN PreOrderAll(n.children) ELSE << >>)

PathSizeBag(items) ==
    [ps \in {<<items[i].path, items[i].size>> : i \in 1..Len(items)} |->
        Cardinality({i \in 1..Len(items) : <<items[i].path, items[i].size>> = ps})]

\* C10: flatten_tree returns the pre-order listing of the tree, every node
\* once; a second call returns the same (path, size) pairs; the tree is the
\* one that was scanned and written.
C10_FlattenPreOrder ==
    (pc = "exited" /\ shortcuts > 0) =>
        /\ flattened = PreOrder(tree)
        /\ Len(flattened) = Cardinality(Nodes(tree))
        /\ Cardinality({flattened[i].path : i \in 1..Len(flattened)}) = Len(flattened)
        /\ PathSizeBag(flatten_tree(tree, None)) = PathSizeBag(flattened)
        /\ tree = report

\* C10 witness: a flattened tree holding a directory with a child below the root.
C10_Witness ==
    /\ pc = "exited" /\ shortcuts > 0
    /\ Len(flattened) >= 3
    /\ \E i \in 1..Len(flattened) : Len(flattened[i].path) = 2

====
